---- MODULE Spec2Model ----
(***************************************************************************)
(* Model of the AliveCor ECG file parser (src/src/lib/parser.ts).          *)
(*                                                                         *)
(* createAliveCorEcgParser().parse(input) is a pure function of a byte     *)
(* buffer.  The declarative binary-parser chains of the source are         *)
(* written out as explicit cursor readers: every fixed-width integer read  *)
(* goes through a DataView and throws a RangeError when it would pass the  *)
(* end of the buffer, while string() and buffer() reads go through         *)
(* subarray(), which clamps to the end of the buffer and never throws.     *)
(*                                                                         *)
(* Bytes are 0..255.  Decoded text is a sequence of code points.  Texts    *)
(* drawn by the specifications hold ASCII bytes and the byte FF only.      *)
(***************************************************************************)
EXTENDS Integers, Sequences, FiniteSets, TLC

VARIABLES
  header,   \* the signature and version the file was written with
  blocks,   \* the blocks the file was written with, in file order
  cut,      \* number of bytes missing from the end of the written file
  input,    \* the Buffer handed to parse()
  parsed,   \* parse(): const parsed = parseFileWithBufferBlocks()
  result    \* what parse() returned or threw

vars == <<header, blocks, cut, input, parsed, result>>

-----------------------------------------------------------------------------
(* Bounds of the model.                                                    *)

MaxBlocks == 3      \* blocks per written file
MaxPattern == 3     \* bytes of a drawn text pattern before padding
MaxLeadLen == 4     \* bytes of a drawn lead block

-----------------------------------------------------------------------------
(* Thrown values.                                                          *)

Throw(name, message, thrownBy) ==
  [ok |-> FALSE, name |-> name, message |-> message, thrownBy |-> thrownBy]

\* DataView.getXxx past the end of the buffer
RangeError(thrownBy) ==
  Throw("RangeError", "Offset is outside the bounds of the DataView", thrownBy)

NotRun == Throw("none", "parse() was not called", "none")

-----------------------------------------------------------------------------
(* Buffer primitives used by the generated parsers.                        *)

Min(a, b) == IF a < b THEN a ELSE b

\* buffer.subarray(start, end): clamped to the buffer, never throws
subarray(buf, start, end) ==
  LET s == Min(start, Len(buf))
      e == Min(end, Len(buf))
  IN  IF e <= s THEN <<>> ELSE SubSeq(buf, s + 1, e)

\* dataView.getUint8(offset), in range
getUint8(buf, offset) == buf[offset + 1]

\* dataView.getUint16(offset, true), in range
getUint16le(buf, offset) == buf[offset + 1] + 256 * buf[offset + 2]

\* dataView.getUint32(offset, true), in range
getUint32le(buf, offset) ==
  buf[offset + 1] + 256 * buf[offset + 2]
    + 65536 * buf[offset + 3] + 16777216 * buf[offset + 4]

getInt16le_unsigned(buf, offset) == getUint16le(buf, offset)

\* dataView.getInt16(offset, true), in range: two's complement
getInt16le(buf, offset) ==
  LET u == getUint16le(buf, offset)
  IN  IF u >= 32768 THEN u - 65536 ELSE u

\* new TextDecoder('utf8').decode(bytes): an ASCII byte is its own code
\* point, a byte that cannot start a UTF-8 sequence becomes U+FFFD
TextDecode(bytes) ==
  [i \in 1..Len(bytes) |-> IF bytes[i] < 128 THEN bytes[i] ELSE 65533]

HexDigits(b) == <<b \div 16, b % 16>>

RECURSIVE toHex(_)
\* Buffer.toString('hex'): two hexadecimal digits per byte
toHex(bytes) ==
  IF bytes = <<>> THEN <<>>
  ELSE HexDigits(Head(bytes)) \o toHex(Tail(bytes))

RECURSIVE firstNull(_, _)
\* index of the first null code point of s at or after i, Len(s) + 1 if none
firstNull(s, i) ==
  IF i > Len(s) \/ s[i] = 0 THEN i ELSE firstNull(s, i + 1)

stripNull_cutAtFirstNull(s) == SubSeq(s, 1, firstNull(s, 1) - 1)

RECURSIVE nullRunStart(_, _)
\* where the run of null code points that ends s[1..n] starts, less one
nullRunStart(s, n) ==
  IF n = 0 \/ s[n] # 0 THEN n ELSE nullRunStart(s, n - 1)

\* string(..., { stripNull: true }): s.replace(/\x00+$/g, '')
stripNull(s) == SubSeq(s, 1, nullRunStart(s, Len(s)))

\* white space of String.prototype.trim among the code points below 128
IsWhiteSpace(c) == c \in {9, 10, 11, 12, 13, 32}

RECURSIVE trimStartIndex(_, _)
trimStartIndex(s, i) ==
  IF i > Len(s) \/ ~IsWhiteSpace(s[i]) THEN i ELSE trimStartIndex(s, i + 1)

RECURSIVE trimEndIndex(_, _)
trimEndIndex(s, n) ==
  IF n = 0 \/ ~IsWhiteSpace(s[n]) THEN n ELSE trimEndIndex(s, n - 1)

\* trimString(s) = s.trim()
trimString(s) == SubSeq(s, trimStartIndex(s, 1), trimEndIndex(s, Len(s)))

\* values of the formatted bit fields, tagged with their JavaScript type
Number(n) == [type |-> "number", num |-> n]
Boolean(b) == [type |-> "boolean", bool |-> b]

\* convertToBoolean(bit) = bit === 1
convertToBoolean(bit) == Boolean(bit = 1)

\* formatter of mainsFrequency: f ? 60 : 50
mainsFrequencyFormatter(f) == IF f # 0 THEN 60 ELSE 50

-----------------------------------------------------------------------------
(* The parsers built by createAliveCorEcgParser().                         *)

\* a DataView read of `size` bytes at `offset` stays inside the buffer
InRange(buf, offset, size) == offset + size <= Len(buf)

RECURSIVE readSamples(_, _)
\* array('data', { type: 'int16le', readUntil: 'eof' }):
\* for (...; offset < buffer.length; ...) data.push(getInt16(offset, true))
readSamples(buf, offset) ==
  IF ~(offset < Len(buf)) THEN [ok |-> TRUE, value |-> <<>>]
  ELSE IF ~InRange(buf, offset, 2) THEN RangeError("leadBlockParser")
  ELSE LET rest == readSamples(buf, offset + 2)
       IN  IF rest.ok
           THEN [ok |-> TRUE, value |-> <<getInt16le(buf, offset)>> \o rest.value]
           ELSE rest

leadBlockParser(buf) ==
  LET r == readSamples(buf, 0)
  IN  IF r.ok THEN [ok |-> TRUE, value |-> [data |-> r.value]] ELSE r

RECURSIVE readTicks(_, _)
\* array('ticks', { type: uint32 offset + uint16 beatType, readUntil: 'eof' })
readTicks(buf, offset) ==
  IF ~(offset < Len(buf)) THEN [ok |-> TRUE, value |-> <<>>]
  ELSE IF ~(InRange(buf, offset, 4) /\ InRange(buf, offset + 4, 2))
       THEN RangeError("annotationBlockParser")
  ELSE LET rest == readTicks(buf, offset + 6)
           tick == [offset |-> getUint32le(buf, offset),
                    beatType |-> getUint16le(buf, offset + 4)]
       IN  IF rest.ok
           THEN [ok |-> TRUE, value |-> <<tick>> \o rest.value]
           ELSE rest

annotationBlockParser(buf) ==
  IF ~InRange(buf, 0, 4) THEN RangeError("annotationBlockParser")
  ELSE LET r == readTicks(buf, 4)
       IN  IF r.ok
           THEN [ok |-> TRUE,
                 value |-> [tickCountFrequencyHz |-> getUint32le(buf, 0),
                            ticks |-> r.value]]
           ELSE r

\* widths of the seven string() fields of infoBlockParser
DateRecordedLen == 32
RecordingUuidLen == 40
MobilePhoneUuidLen == 44
MobilePhoneModelLen == 32
RecorderSoftwareLen == 32
RecorderHardwareLen == 32
DeviceDataLen == 52

\* string(name, { length, stripNull: true, formatter: trimString })
stringField(buf, offset, length) ==
  trimString(stripNull(TextDecode(subarray(buf, offset, offset + length))))

infoBlockParser(buf) ==
  LET o1 == DateRecordedLen
      o2 == o1 + RecordingUuidLen
      o3 == o2 + MobilePhoneUuidLen
      o4 == o3 + MobilePhoneModelLen
      o5 == o4 + RecorderSoftwareLen
      o6 == o5 + RecorderHardwareLen
  IN  [ok |-> TRUE,
       value |-> [dateRecorded     |-> stringField(buf, 0, DateRecordedLen),
                  recordingUuid    |-> stringField(buf, o1, RecordingUuidLen),
                  mobilePhoneUuid  |-> stringField(buf, o2, MobilePhoneUuidLen),
                  mobilePhoneModel |-> stringField(buf, o3, MobilePhoneModelLen),
                  recorderSoftware |-> stringField(buf, o4, RecorderSoftwareLen),
                  recorderHardware |-> stringField(buf, o5, RecorderHardwareLen),
                  deviceData       |-> stringField(buf, o6, DeviceDataLen)]]

bit1_msbFirst(val, bitOffset) == (val \div (2 ^ (7 - bitOffset))) % 2

\* bit1 of a little-endian parser: (val >> bitOffset) & 1
bit1(val, bitOffset) == (val \div (2 ^ bitOffset)) % 2

formatBlockParser(buf) ==
  IF ~(/\ InRange(buf, 0, 1)      \* uint8 ecgFormat
       /\ InRange(buf, 1, 2)      \* uint16 samplingRateHz
       /\ InRange(buf, 3, 2)      \* uint16 amplitudeResolutionNV
       /\ InRange(buf, 5, 1)      \* the byte of the eight bit1 fields
       /\ InRange(buf, 6, 2))     \* uint16 reserved
  THEN RangeError("formatBlockParser")
  ELSE LET val == getUint8(buf, 5)
       IN  [ok |-> TRUE,
            value |-> [ecgFormat             |-> getUint8(buf, 0),
                       samplingRateHz        |-> getUint16le(buf, 1),
                       amplitudeResolutionNV |-> getUint16le(buf, 3),
                       polarity         |-> Number(bit1(val, 0)),
                       mainsFrequency   |-> Number(mainsFrequencyFormatter(bit1(val, 1))),
                       mainsFilter      |-> convertToBoolean(bit1(val, 2)),
                       lowPassFilter    |-> convertToBoolean(bit1(val, 3)),
                       baseLineFilter   |-> convertToBoolean(bit1(val, 4)),
                       notchMainsFilter |-> convertToBoolean(bit1(val, 5)),
                       enhancedFilter   |-> convertToBoolean(bit1(val, 6)),
                       unused           |-> Number(bit1(val, 7)),
                       reserved         |-> getUint16le(buf, 6)]]

blockParser_lenient(buf, offset) ==
  IF ~InRange(buf, offset + 4, 4) THEN RangeError("fileParser")
  ELSE LET length == getUint32le(buf, offset + 4)
           end == offset + 8 + length
       IN  [ok |-> TRUE,
            value |-> [identifier |-> TextDecode(subarray(buf, offset, offset + 4)),
                       length     |-> length,
                       contents   |-> subarray(buf, offset + 8, end),
                       checksum   |-> IF InRange(buf, end, 4)
                                      THEN getUint32le(buf, end) ELSE 0],
            offset |-> end + 4]

\* blockParser, started at `offset`: string(4), uint32 length,
\* buffer(length), uint32 checksum
blockParser(buf, offset) ==
  IF ~InRange(buf, offset + 4, 4) THEN RangeError("fileParser")
  ELSE LET length == getUint32le(buf, offset + 4)
           end == offset + 8 + length
       IN  IF ~InRange(buf, end, 4) THEN RangeError("fileParser")
           ELSE [ok |-> TRUE,
                 value |-> [identifier |-> TextDecode(subarray(buf, offset, offset + 4)),
                            length     |-> length,
                            contents   |-> subarray(buf, offset + 8, end),
                            checksum   |-> getUint32le(buf, end)],
                 offset |-> end + 4]

RECURSIVE readBlocks(_, _)
\* array('blocks', { type: blockParser, readUntil: 'eof' })
readBlocks(buf, offset) ==
  IF ~(offset < Len(buf)) THEN [ok |-> TRUE, value |-> <<>>]
  ELSE LET b == blockParser(buf, offset)
       IN  IF ~b.ok THEN b
           ELSE LET rest == readBlocks(buf, b.offset)
                IN  IF rest.ok
                    THEN [ok |-> TRUE, value |-> <<b.value>> \o rest.value]
                    ELSE rest

\* fileParser: buffer signature(8), uint32 version, blocks until eof
fileParser(buf) ==
  IF ~InRange(buf, 8, 4) THEN RangeError("fileParser")
  ELSE LET bs == readBlocks(buf, 12)
       IN  IF ~bs.ok THEN bs
           ELSE [ok |-> TRUE,
                 value |-> [signature |-> subarray(buf, 0, 8),
                            version   |-> getUint32le(buf, 8),
                            blocks    |-> bs.value]]

-----------------------------------------------------------------------------
(* parse(input) and its local functions.                                   *)

\* the block identifiers the source compares with, as code points
ID_info == <<105, 110, 102, 111>>      \* 'info'
ID_fmt  == <<102, 109, 116, 32>>       \* 'fmt '
ID_ann  == <<97, 110, 110, 32>>        \* 'ann '
ID_ecg  == <<101, 99, 103, 32>>        \* 'ecg '
ID_ecg2 == <<101, 99, 103, 50>>        \* 'ecg2'
ID_ecg3 == <<101, 99, 103, 51>>        \* 'ecg3'
ID_ecg4 == <<101, 99, 103, 52>>        \* 'ecg4'
ID_ecg5 == <<101, 99, 103, 53>>        \* 'ecg5'
ID_ecg6 == <<101, 99, 103, 54>>        \* 'ecg6'

\* '414c495645000000', one entry per hexadecimal digit
SignatureHex == <<4, 1, 4, 12, 4, 9, 5, 6, 4, 5, 0, 0, 0, 0, 0, 0>>

parseFileWithBufferBlocks_versionFirst(buf) ==
  LET file == fileParser(buf)
  IN  IF ~file.ok THEN file
      ELSE IF file.value.version # 4
      THEN Throw("Error", "Unsupported AliveCor ECG file", "parseFileWithBufferBlocks")
      ELSE IF toHex(file.value.signature) # SignatureHex
      THEN Throw("Error", "Not an AliveCor ECG file", "parseFileWithBufferBlocks")
      ELSE file

parseFileWithBufferBlocks(buf) ==
  LET file == fileParser(buf)
  IN  IF ~file.ok THEN file
      ELSE IF toHex(file.value.signature) # SignatureHex
      THEN Throw("Error", "Not an AliveCor ECG file", "parseFileWithBufferBlocks")
      ELSE IF file.value.version # 4
      THEN Throw("Error", "Unsupported AliveCor ECG file", "parseFileWithBufferBlocks")
      ELSE file

RECURSIVE findLast(_, _)
findLast(bs, identifier) ==
  IF bs = <<>> THEN 0
  ELSE IF bs[Len(bs)].identifier = identifier THEN Len(bs)
  ELSE findLast(SubSeq(bs, 1, Len(bs) - 1), identifier)

RECURSIVE findFrom(_, _, _)
findFrom(bs, identifier, i) ==
  IF i > Len(bs) THEN 0
  ELSE IF bs[i].identifier = identifier THEN i
  ELSE findFrom(bs, identifier, i + 1)

\* parsed.blocks.find((b) => b.identifier === identifier): the index of the
\* first match, 0 for undefined
find(bs, identifier) == findFrom(bs, identifier, 1)

\* the value of a function that returned undefined
Undefined == [ok |-> TRUE, undefined |-> TRUE]

IsDefined(r) == "value" \in DOMAIN r

parseInfoBlock(file) ==
  LET i == find(file.blocks, ID_info)
  IN  IF i = 0
      THEN Throw("Error", "No info block in AliveCor ECG file", "parseInfoBlock")
      ELSE infoBlockParser(file.blocks[i].contents)

parseFormatBlock_copiedMessage(file) ==
  LET i == find(file.blocks, ID_fmt)
  IN  IF i = 0
      THEN Throw("Error", "No info block in AliveCor ECG file", "parseFormatBlock")
      ELSE formatBlockParser(file.blocks[i].contents)

parseFormatBlock(file) ==
  LET i == find(file.blocks, ID_fmt)
  IN  IF i = 0
      THEN Throw("Error", "No format block in AliveCor ECG file", "parseFormatBlock")
      ELSE formatBlockParser(file.blocks[i].contents)

parseAnnotationBlock(file) ==
  LET i == find(file.blocks, ID_ann)
  IN  IF i = 0 THEN Undefined
      ELSE annotationBlockParser(file.blocks[i].contents)

parseLeadBlock(file, type) ==
  LET i == find(file.blocks, type)
  IN  IF i = 0 THEN Undefined
      ELSE LET r == leadBlockParser(file.blocks[i].contents)
           IN  IF r.ok THEN [ok |-> TRUE, value |-> r.value.data] ELSE r

\* the [type, name] table of parse()
LeadTable ==
  << <<ID_ecg,  "leadI">>,  <<ID_ecg2, "leadII">>, <<ID_ecg3, "leadIII">>,
     <<ID_ecg4, "aVR">>,    <<ID_ecg5, "aVL">>,    <<ID_ecg6, "aVF">> >>

\* .filter(({ data }) => data): an array is truthy even when empty
Truthy(r) == IsDefined(r)

parseLeads_dropEmpty(file) ==
  LET mapped == [k \in DOMAIN LeadTable |-> parseLeadBlock(file, LeadTable[k][1])]
      thrown == {k \in DOMAIN LeadTable : ~mapped[k].ok}
      kept   == {k \in DOMAIN LeadTable : IsDefined(mapped[k]) /\ mapped[k].value # <<>>}
  IN  IF thrown # {}
      THEN mapped[CHOOSE k \in thrown : \A j \in thrown : k <= j]
      ELSE [ok |-> TRUE,
            value |-> [name \in {LeadTable[k][2] : k \in kept} |->
                         mapped[CHOOSE k \in kept : LeadTable[k][2] = name].value]]

\* leads = [...].map(parseLeadBlock).filter(data).reduce(merge, {}):
\* the first lead block that throws ends parse()
parseLeads(file) ==
  LET mapped == [k \in DOMAIN LeadTable |-> parseLeadBlock(file, LeadTable[k][1])]
      thrown == {k \in DOMAIN LeadTable : ~mapped[k].ok}
      kept   == {k \in DOMAIN LeadTable : Truthy(mapped[k])}
  IN  IF thrown # {}
      THEN mapped[CHOOSE k \in thrown : \A j \in thrown : k <= j]
      ELSE [ok |-> TRUE,
            value |-> [name \in {LeadTable[k][2] : k \in kept} |->
                         mapped[CHOOSE k \in kept : LeadTable[k][2] = name].value]]

\* parse() from `const info = parseInfoBlock()` on, `file` being the value
\* of `parsed`
parseRecord(file) ==
  LET info == parseInfoBlock(file)
  IN  IF ~info.ok THEN info ELSE
  LET format == parseFormatBlock(file)
  IN  IF ~format.ok THEN format ELSE
  LET annotation == parseAnnotationBlock(file)
  IN  IF ~annotation.ok THEN annotation ELSE
      IF format.value.ecgFormat # 1
      THEN Throw("Error", "Unsupported ECG Format in AliveCor ECG file", "parse")
      ELSE
  LET leads == parseLeads(file)
  IN  IF ~leads.ok THEN leads
      ELSE [ok |-> TRUE,
            value |-> [fileVersion |-> "1.6",
                       info        |-> info.value,
                       format      |-> format.value,
                       leads       |-> leads.value]
                      @@ (IF IsDefined(annotation)
                          THEN [annotation |-> annotation.value]
                          ELSE <<>>)]

\* what parse() returns or throws once `parsed` was computed or threw
parse(file) == IF ~file.ok THEN file ELSE parseRecord(file.value)

-----------------------------------------------------------------------------
(* The files handed to parse(): written block by block in the layout       *)
(* fileParser and blockParser read.                                        *)

u16le(n) == <<n % 256, (n \div 256) % 256>>

u32le(n) ==
  <<n % 256, (n \div 256) % 256, (n \div 65536) % 256, (n \div 16777216) % 256>>

Block(identifier, contents, checksum) ==
  [identifier |-> identifier, contents |-> contents, checksum |-> checksum]

\* Identifier(4) Length(u32) Content(Length bytes) Checksum(u32)
EncodeBlock(b) ==
  b.identifier \o u32le(Len(b.contents)) \o b.contents \o u32le(b.checksum)

RECURSIVE EncodeBlocks(_)
EncodeBlocks(bs) ==
  IF bs = <<>> THEN <<>> ELSE EncodeBlock(Head(bs)) \o EncodeBlocks(Tail(bs))

\* Signature(8) Version(u32) Block*
EncodeFile(h, bs) == h.signature \o u32le(h.version) \o EncodeBlocks(bs)

\* the written file without its last c bytes
Written(h, bs, c) ==
  LET all == EncodeFile(h, bs)
  IN  SubSeq(all, 1, Len(all) - c)

GoodSignature == <<65, 76, 73, 86, 69, 0, 0, 0>>     \* "ALIVE" 00 00 00
BadSignature  == <<65, 76, 73, 86, 69, 0, 0, 1>>

GoodHeader == [signature |-> GoodSignature, version |-> 4]

Headers == {[signature |-> sg, version |-> v] :
              sg \in {GoodSignature, BadSignature}, v \in {4, 5}}

RECURSIVE Repeat(_, _)
Repeat(byte, n) == IF n <= 0 THEN <<>> ELSE <<byte>> \o Repeat(byte, n - 1)

FieldWidths ==
  <<DateRecordedLen, RecordingUuidLen, MobilePhoneUuidLen, MobilePhoneModelLen,
    RecorderSoftwareLen, RecorderHardwareLen, DeviceDataLen>>

FieldNames ==
  <<"dateRecorded", "recordingUuid", "mobilePhoneUuid", "mobilePhoneModel",
    "recorderSoftware", "recorderHardware", "deviceData">>

RECURSIVE Concat(_)
Concat(seqs) == IF seqs = <<>> THEN <<>> ELSE Head(seqs) \o Concat(Tail(seqs))

\* an info content: each text followed by the pad byte up to its field width
InfoOf(texts, pad) ==
  Concat([k \in DOMAIN FieldWidths |->
            texts[k] \o Repeat(pad, FieldWidths[k] - Len(texts[k]))])

\* "2020-01-01" and two spaces, "2021-12-31"
Date1 == <<50, 48, 50, 48, 45, 48, 49, 45, 48, 49, 32, 32>>
Date2 == <<50, 48, 50, 49, 45, 49, 50, 45, 51, 49>>

TextsA == <<Date1, <<117, 49>>, <<112, 49>>, <<109, 49>>, <<115, 49>>, <<104, 49>>, <<100, 49>>>>

InfoA == Block(ID_info, InfoOf(TextsA, 0), 0)
\* an 'info' content that ends inside its second field
InfoB == Block(ID_info, Date2 \o Repeat(0, DateRecordedLen - Len(Date2)) \o <<117, 50>>, 7)

\* a 'fmt ' content
FmtOf(ecgFormat, rate, resolution, flags, reserved) ==
  <<ecgFormat>> \o u16le(rate) \o u16le(resolution) \o <<flags>> \o u16le(reserved)

FmtA     == Block(ID_fmt, FmtOf(1, 300, 1000, 5, 0), 0)
Fmt2     == Block(ID_fmt, FmtOf(2, 300, 1000, 5, 0), 0)
FmtShort == Block(ID_fmt, <<1, 44, 1, 232, 3>>, 0)

\* 'ann ': frequency and one tick; the same with a partial second tick
AnnA   == Block(ID_ann, u32le(300) \o u32le(70000) \o u16le(1), 0)
AnnBad == Block(ID_ann, u32le(300) \o u32le(70000) \o u16le(1) \o <<9, 9, 9>>, 0)

\* samples 100, -200, 300
EcgA     == Block(ID_ecg, <<100, 0, 56, 255, 44, 1>>, 305419896)
EcgOdd   == Block(ID_ecg, <<100, 0, 56, 255, 44>>, 0)

\* a block for lead k of LeadTable; the one for 'ecg4' is empty
LeadBlock(k) ==
  Block(LeadTable[k][1], IF k = 4 THEN <<>> ELSE <<k, 0, 255 - k, 255>>, k)

Xtra   == Block(<<120, 116, 114, 97>>, <<1, 2, 3>>, 2147483647)      \* 'xtra'
UpInfo == Block(<<73, 78, 70, 79>>, Date2, 0)                        \* 'INFO'

-----------------------------------------------------------------------------
(* Specification Spec: a file is written header first, block after block,  *)
(* possibly losing its last bytes, and parse() is called on what is there. *)

\* parse(input') on the file as now written
Call(h, bs, c) ==
  /\ input' = Written(h, bs, c)
  /\ parsed' = parseFileWithBufferBlocks(input')
  /\ result' = parse(parsed')

StructBlocks == {InfoA, InfoB, FmtA, Fmt2, FmtShort, AnnA, AnnBad, EcgA, EcgOdd, Xtra}

CutChoices == {1, 4, 5, 9, 12}

\* the bytes of the last thing written: the last block, or the header
LastUnit(bs) == IF bs = <<>> THEN 12 ELSE Len(EncodeBlock(bs[Len(bs)]))

Init ==
  /\ header \in Headers
  /\ blocks = <<>>
  /\ cut = 0
  /\ input = Written(header, blocks, cut)
  /\ parsed = NotRun
  /\ result = NotRun

\* parser.parse(input)
Decode ==
  /\ result = NotRun
  /\ UNCHANGED <<header, blocks, cut>>
  /\ Call(header, blocks, cut)

AddBlock(b) ==
  /\ cut = 0
  /\ Len(blocks) < MaxBlocks
  /\ blocks' = Append(blocks, b)
  /\ UNCHANGED <<header, cut>>
  /\ Call(header, blocks', cut)

\* the file loses its last k bytes: part of its last block, or of its header
Truncate(k) ==
  /\ cut = 0
  /\ k < LastUnit(blocks) \/ (blocks = <<>> /\ k = 12)
  /\ cut' = k
  /\ UNCHANGED <<header, blocks>>
  /\ Call(header, blocks, k)

Next ==
  \/ Decode
  \/ \E b \in StructBlocks : AddBlock(b)
  \/ \E k \in CutChoices : Truncate(k)

Spec == Init /\ [][Next]_vars

-----------------------------------------------------------------------------
(* Specification SpecBlocks: files with a good header whose blocks are     *)
(* inserted at any position and exchanged with their neighbours; parse()   *)
(* is called on every file.                                                *)

MaxExtra == 2       \* blocks inserted besides one 'fmt ' and one 'info'

BaseFiles == {<<>>, <<FmtA>>, <<InfoA>>, <<FmtA, InfoA>>, <<InfoA, FmtA>>}

ExtraBlocks ==
  {Fmt2, AnnA, EcgA, EcgOdd, UpInfo} \cup {LeadBlock(k) : k \in 2..6}

NumExtra(bs) == Cardinality({i \in DOMAIN bs : bs[i] \notin {FmtA, InfoA}})

InsertAt(bs, pos, b) ==
  SubSeq(bs, 1, pos) \o <<b>> \o SubSeq(bs, pos + 1, Len(bs))

SwapAt(bs, i) ==
  [j \in DOMAIN bs |-> IF j = i THEN bs[i + 1] ELSE IF j = i + 1 THEN bs[i] ELSE bs[j]]

InitBlocks ==
  /\ header = GoodHeader
  /\ blocks \in BaseFiles
  /\ cut = 0
  /\ input = Written(header, blocks, cut)
  /\ parsed = NotRun
  /\ result = NotRun

InsertBlock(pos, b) ==
  /\ NumExtra(blocks) < MaxExtra
  /\ blocks' = InsertAt(blocks, pos, b)
  /\ UNCHANGED <<header, cut>>
  /\ Call(header, blocks', cut)

SwapBlocks(i) ==
  /\ result # NotRun
  /\ blocks' = SwapAt(blocks, i)
  /\ UNCHANGED <<header, cut>>
  /\ Call(header, blocks', cut)

NextBlocks ==
  \/ Decode
  \/ \E pos \in 0..Len(blocks) : \E b \in ExtraBlocks : InsertBlock(pos, b)
  \/ \E i \in 1..(Len(blocks) - 1) : SwapBlocks(i)

SpecBlocks == InitBlocks /\ [][NextBlocks]_vars

-----------------------------------------------------------------------------
(* Specification SpecFields: files 'fmt ', 'info', 'ecg ' in which one     *)
(* block's content is drawn: every flags byte, info fields holding a       *)
(* pattern of null, space and letter bytes, info contents of every length  *)
(* up to a little over the seven fields, and lead contents of a few bytes. *)

MaxSurplus == 3     \* bytes an info content may hold after its last field

InfoSize == Len(InfoA.contents)

PatternBytes == {0, 32, 97}
PadBytes == {0, 32, 122}
LeadBytes == {0, 56, 127, 128, 255}

SeqsUpTo(S, n) == UNION {[1..m -> S] : m \in 0..n}

\* field k holds the pattern, then the pad byte up to its width; every
\* other field is filled to its width with its own letter
PatternInfo(k, pattern, pad) ==
  InfoOf([j \in DOMAIN FieldWidths |->
            IF j = k THEN pattern ELSE Repeat(65 + j, FieldWidths[j])], pad)

\* the first n bytes of seven filled fields and MaxSurplus further bytes
SizedInfo(n) ==
  SubSeq(PatternInfo(0, <<>>, 0) \o Repeat(33, MaxSurplus), 1, n)

FieldFiles ==
  {<<Block(ID_fmt, FmtOf(1, 300, 1000, flags, 0), 0), InfoA, EcgA>> :
     flags \in 0..255}
  \cup
  {<<FmtA, Block(ID_info, PatternInfo(k, p, pad), 0), EcgA>> :
     k \in DOMAIN FieldWidths, p \in SeqsUpTo(PatternBytes, MaxPattern),
     pad \in PadBytes}
  \cup
  {<<FmtA, Block(ID_info, SizedInfo(n), 0), EcgA>> :
     n \in 0..(InfoSize + MaxSurplus)}
  \cup
  {<<FmtA, InfoA, Block(ID_ecg, c, 0)>> : c \in SeqsUpTo(LeadBytes, MaxLeadLen)}

InitFields ==
  /\ header = GoodHeader
  /\ blocks \in FieldFiles
  /\ cut = 0
  /\ input = Written(header, blocks, cut)
  /\ parsed = NotRun
  /\ result = NotRun

NextFields == Decode

SpecFields == InitFields /\ [][NextFields]_vars

-----------------------------------------------------------------------------
(* What the written file holds, read off the writer's side.                *)

Ran == result # NotRun

HasBlock(identifier) == \E i \in DOMAIN blocks : blocks[i].identifier = identifier

\* the first written block with the identifier
FirstBlock(identifier) ==
  blocks[CHOOSE i \in DOMAIN blocks :
           /\ blocks[i].identifier = identifier
           /\ \A j \in 1..(i - 1) : blocks[j].identifier # identifier]

Failed(message) == ~result.ok /\ result.message = message

FailedInside(thrownBy) ==
  ~result.ok /\ result.name = "RangeError" /\ result.thrownBy = thrownBy

InvalidSignature   == Failed("Not an AliveCor ECG file")
UnsupportedVersion == Failed("Unsupported AliveCor ECG file")
MissingInfoBlock   == Failed("No info block in AliveCor ECG file")
MissingFormatBlock == Failed("No format block in AliveCor ECG file")
UnsupportedFormat  == Failed("Unsupported ECG Format in AliveCor ECG file")
TruncatedBlock           == FailedInside("fileParser")
MalformedFormatBlock     == FailedInside("formatBlockParser")
MalformedAnnotationBlock == FailedInside("annotationBlockParser")
MalformedSignalBlock     == FailedInside("leadBlockParser")

\* sample i of a lead content: bytes 2i-1 and 2i, little-endian, as a
\* signed 16-bit value
SampleAt(c, i) == ((c[2 * i - 1] + 256 * c[2 * i] + 32768) % 65536) - 32768

SamplesOf(c) == [i \in 1..(Len(c) \div 2) |-> SampleAt(c, i)]

-----------------------------------------------------------------------------
(* C1: every input whose first 8 bytes are not the signature fails with    *)
(* 'Not an AliveCor ECG file', whatever follows the 8 bytes (nothing, a    *)
(* wrong version, a cut block).                                            *)
C1_InvalidSignature ==
  (Ran /\ Len(input) >= 8 /\ SubSeq(input, 1, 8) # GoodSignature)
    => InvalidSignature

-----------------------------------------------------------------------------
(* C6: the container reader returns exactly the written blocks, each with  *)
(* as many content bytes as its length field declares, when the file is    *)
(* complete (no block for the 12 header bytes alone), and fails inside     *)
(* fileParser when bytes are missing from the last block or the header.    *)
C6_ContainerReader ==
  Ran =>
    /\ cut > 0 => ~parsed.ok /\ parsed.name = "RangeError" /\ TruncatedBlock
    /\ cut = 0 => ~(~parsed.ok /\ parsed.name = "RangeError")
    /\ (cut = 0 /\ header = GoodHeader) =>
         /\ parsed.ok
         /\ parsed.value.blocks =
              [i \in DOMAIN blocks |->
                 [identifier |-> blocks[i].identifier,
                  length     |-> Len(blocks[i].contents),
                  contents   |-> blocks[i].contents,
                  checksum   |-> blocks[i].checksum]]
    /\ parsed.ok =>
         /\ \A i \in DOMAIN parsed.value.blocks :
              Len(parsed.value.blocks[i].contents) = parsed.value.blocks[i].length
         /\ Len(input) = 12 + 12 * Len(parsed.value.blocks)
              + Len(Concat([i \in DOMAIN parsed.value.blocks |->
                              parsed.value.blocks[i].contents]))

\* a file of two blocks or more that lost bytes of its last block
C6_Witness ==
  Ran /\ cut > 0 /\ Len(blocks) >= 2 /\ header = GoodHeader /\ TruncatedBlock

-----------------------------------------------------------------------------
(* C10: the failure parse() reports is that of the first failing step.     *)

StepFails(step) ==
  CASE step = "blocks"    -> cut > 0
    [] step = "signature" -> header.signature # GoodSignature
    [] step = "version"   -> header.version # 4
    [] step = "info"      -> ~HasBlock(ID_info)
    [] step = "fmt"       -> ~HasBlock(ID_fmt) \/ Len(FirstBlock(ID_fmt).contents) < 8
    [] step = "ecgFormat" -> HasBlock(ID_fmt) /\ FirstBlock(ID_fmt).contents # <<>>
                               /\ FirstBlock(ID_fmt).contents[1] # 1
    [] step = "ann"       -> HasBlock(ID_ann)
                               /\ \/ Len(FirstBlock(ID_ann).contents) < 4
                                  \/ (Len(FirstBlock(ID_ann).contents) - 4) % 6 # 0
    [] step = "leads"     -> \E k \in DOMAIN LeadTable :
                               /\ HasBlock(LeadTable[k][1])
                               /\ Len(FirstBlock(LeadTable[k][1]).contents) % 2 = 1

StepHolds(step) ==
  CASE step = "blocks"    -> TruncatedBlock
    [] step = "signature" -> InvalidSignature
    [] step = "version"   -> UnsupportedVersion
    [] step = "info"      -> MissingInfoBlock
    [] step = "fmt"       -> IF HasBlock(ID_fmt) THEN MalformedFormatBlock
                                                 ELSE MissingFormatBlock
    [] step = "ecgFormat" -> UnsupportedFormat
    [] step = "ann"       -> MalformedAnnotationBlock
    [] step = "leads"     -> MalformedSignalBlock

\* the result is the failure of the first step of `order` that fails, and a
\* record when no step fails
ReportsFirstOf(order) ==
  LET failing == {n \in DOMAIN order : StepFails(order[n])}
  IN  IF failing = {} THEN result.ok
      ELSE StepHolds(order[CHOOSE n \in failing : \A m \in failing : n <= m])

(* C10 as claimed: signature, version, blocks, then 'fmt ' and ecgFormat,   *)
(* then 'info', then 'ann ', then the leads.                               *)
C10_ClaimedOrder ==
  Ran => ReportsFirstOf(<<"signature", "version", "blocks", "fmt", "ecgFormat",
                          "info", "ann", "leads">>)

(* C10 as amended: the whole container is read first, then signature and   *)
(* version are checked, then 'info', 'fmt ' and 'ann ' are located and     *)
(* decoded in this order, then ecgFormat = 1 is checked, then the leads    *)
(* are decoded; the first failing step gives the failure.                  *)
C10_CodeOrder ==
  Ran => ReportsFirstOf(<<"blocks", "signature", "version", "info", "fmt",
                          "ann", "ecgFormat", "leads">>)

\* ecgFormat = 2 and a malformed 'ann ': the annotation failure is reported
C10_Witness ==
  /\ Ran /\ cut = 0 /\ header = GoodHeader
  /\ HasBlock(ID_info) /\ StepFails("ecgFormat") /\ StepFails("ann")
  /\ MalformedAnnotationBlock

-----------------------------------------------------------------------------
(* C2 as claimed: a file without a 'fmt ' block fails with 'No format      *)
(* block', a file with a 'fmt ' block and without an 'info' block fails    *)
(* with 'No info block', and exchanging two neighbouring blocks never      *)
(* changes the outcome.                                                    *)
C2_Claimed ==
  [][/\ ~HasBlock(ID_fmt)' => MissingFormatBlock'
     /\ (HasBlock(ID_fmt)' /\ ~HasBlock(ID_info)') => MissingInfoBlock'
     /\ (Ran /\ \E i \in 1..(Len(blocks) - 1) : blocks' = SwapAt(blocks, i))
          => result' = result]_vars

(* C2 as amended: a file without an 'info' block fails with 'No info       *)
(* block', a file with an 'info' block and without a 'fmt ' block fails    *)
(* with 'No format block', and exchanging two neighbouring blocks of       *)
(* different identifiers never changes the outcome (so neither does any    *)
(* permutation that keeps blocks of one identifier in their order).        *)
C2_Amended ==
  [][/\ ~HasBlock(ID_info)' => MissingInfoBlock'
     /\ (HasBlock(ID_info)' /\ ~HasBlock(ID_fmt)') => MissingFormatBlock'
     /\ (Ran /\ \E i \in 1..(Len(blocks) - 1) :
                  /\ blocks' = SwapAt(blocks, i)
                  /\ blocks[i].identifier # blocks[i + 1].identifier)
          => result' = result]_vars

\* both required blocks behind other blocks, decoded to a record
C2_Witness ==
  /\ Ran /\ result.ok /\ Len(blocks) >= 4
  /\ blocks[Len(blocks)].identifier = ID_fmt
  /\ blocks[Len(blocks) - 1].identifier = ID_info

-----------------------------------------------------------------------------
(* C7: in every record returned, a lead is a key of leads exactly when     *)
(* the file holds a block with its identifier, its value is the samples    *)
(* of the first such block (none for an empty block), and annotation is a  *)
(* key of the record exactly when the file holds an 'ann ' block; a file   *)
(* with 'info' and a supported 'fmt ' and no 'ecg ' block decodes to a     *)
(* record without leadI.                                                   *)

LeadPairs ==
  {<<ID_ecg, "leadI">>, <<ID_ecg2, "leadII">>, <<ID_ecg3, "leadIII">>,
   <<ID_ecg4, "aVR">>, <<ID_ecg5, "aVL">>, <<ID_ecg6, "aVF">>}

C7_Leads ==
  /\ (Ran /\ result.ok) =>
       /\ DOMAIN result.value.leads \subseteq {pr[2] : pr \in LeadPairs}
       /\ \A pr \in LeadPairs :
            /\ pr[2] \in DOMAIN result.value.leads <=> HasBlock(pr[1])
            /\ HasBlock(pr[1]) =>
                 result.value.leads[pr[2]] = SamplesOf(FirstBlock(pr[1]).contents)
       /\ "annotation" \in DOMAIN result.value <=> HasBlock(ID_ann)
  /\ (Ran /\ HasBlock(ID_info) /\ HasBlock(ID_fmt) /\ FirstBlock(ID_fmt) = FmtA
          /\ ~HasBlock(ID_ecg)) =>
       result.ok /\ "leadI" \notin DOMAIN result.value.leads

\* a record with an empty aVR, from a file without an 'ecg ' block
C7_Witness ==
  /\ Ran /\ result.ok
  /\ HasBlock(ID_ecg4) /\ result.value.leads["aVR"] = <<>>
  /\ ~HasBlock(ID_ecg) /\ HasBlock(ID_ecg2)

-----------------------------------------------------------------------------
(* C8: inserting a block leaves the result of parse() unchanged when the   *)
(* block's identifier is none of the nine the parser looks for, or when a  *)
(* block with the same identifier stands before it in the file.  (Removing *)
(* such a block is the same step read backwards.)                          *)

Recognized ==
  {ID_info, ID_fmt, ID_ann, ID_ecg, ID_ecg2, ID_ecg3, ID_ecg4, ID_ecg5, ID_ecg6}

IgnoredInsertion(before, after) ==
  \E pos \in 0..Len(before) :
    /\ Len(after) = Len(before) + 1
    /\ after = InsertAt(before, pos, after[pos + 1])
    /\ \/ after[pos + 1].identifier \notin Recognized
       \/ \E j \in 1..pos : before[j].identifier = after[pos + 1].identifier

C8_Frame ==
  [][(Ran /\ IgnoredInsertion(blocks, blocks')) => result' = result]_vars

\* a record from a file holding, before its 'fmt ' and 'info' blocks, an
\* 'ecg ' block and then a second 'ecg ' block of odd length
C8_Witness ==
  /\ Ran /\ result.ok /\ Len(blocks) = 4
  /\ blocks[1] = EcgA /\ blocks[2] = EcgOdd
  /\ result.value.leads["leadI"] = <<100, -200, 300>>

-----------------------------------------------------------------------------
(* The info fields, read off the written 'info' content.                   *)

SetMax(S) == CHOOSE x \in S : \A y \in S : y <= x
SetMin(S) == CHOOSE x \in S : \A y \in S : x <= y

FieldOffset(k) == Len(Concat([j \in 1..(k - 1) |-> Repeat(0, FieldWidths[j])]))

\* the bytes of the written 'info' content that lie in the window of field k
FieldBytes(k) ==
  LET c == FirstBlock(ID_info).contents
      from == FieldOffset(k)
      to == IF Len(c) < from + FieldWidths[k] THEN Len(c) ELSE from + FieldWidths[k]
  IN  IF to <= from THEN <<>> ELSE SubSeq(c, from + 1, to)

\* f[1..n] without the white space at its two ends
Trimmed(f, n) ==
  LET black == {i \in 1..n : f[i] \notin {9, 10, 11, 12, 13, 32}}
  IN  IF black = {} THEN <<>> ELSE SubSeq(f, SetMin(black), SetMax(black))

\* the field up to its first null byte, trimmed
UpToFirstNull(f) ==
  Trimmed(f, SetMin({i \in DOMAIN f : f[i] = 0} \cup {Len(f) + 1}) - 1)

\* the field without the null bytes it ends with, trimmed
WithoutTrailingNulls(f) ==
  Trimmed(f, SetMax({i \in DOMAIN f : f[i] # 0} \cup {0}))

-----------------------------------------------------------------------------
(* C3: parse() fails when the 'info' content is shorter than the seven     *)
(* fields (264 bytes); from a content of 264 bytes or more it takes the    *)
(* fields of the first 264 bytes.                                          *)
C3_ShortInfoFails ==
  Ran =>
    /\ Len(FirstBlock(ID_info).contents) < 264 => ~result.ok
    /\ (Len(FirstBlock(ID_info).contents) >= 264 /\ result.ok) =>
         \A k \in DOMAIN FieldNames :
           result.value.info[FieldNames[k]] = WithoutTrailingNulls(FieldBytes(k))

-----------------------------------------------------------------------------
(* C4 as claimed: each decoded info field is the field's bytes up to its   *)
(* first null byte (all of them if it holds none), without the white       *)
(* space at the two ends.                                                  *)
C4_Claimed ==
  (Ran /\ result.ok) =>
    \A k \in DOMAIN FieldNames :
      result.value.info[FieldNames[k]] = UpToFirstNull(FieldBytes(k))

(* C4 as amended: each decoded info field is the field's bytes without the *)
(* null bytes the field ends with, then without the white space at the     *)
(* two ends; a null byte followed in the field by another byte, and the    *)
(* bytes after it, stay in the string.                                     *)
C4_Amended ==
  (Ran /\ result.ok) =>
    \A k \in DOMAIN FieldNames :
      result.value.info[FieldNames[k]] = WithoutTrailingNulls(FieldBytes(k))

\* a field 'a' 00 'a' 00 ... 00 decoded to 'a' 00 'a'
C4_Witness ==
  /\ Ran /\ result.ok
  /\ \E k \in DOMAIN FieldNames :
       /\ Len(FieldBytes(k)) = FieldWidths[k]
       /\ SubSeq(FieldBytes(k), 1, 4) = <<97, 0, 97, 0>>
       /\ result.value.info[FieldNames[k]] = <<97, 0, 97>>

-----------------------------------------------------------------------------
(* C5: the flags byte (byte 5 of the 'fmt ' content) against the decoded   *)
(* format.                                                                 *)

FlagsByte == FirstBlock(ID_fmt).contents[6]

FlagBit(n) == (FlagsByte \div (2 ^ n)) % 2

(* C5 as claimed: bit 0 is polarity, bits 2..6 the five filters, each true *)
(* exactly when its bit is 1; bit 1 gives mainsFrequency 60 when 1 and 50  *)
(* when 0.                                                                 *)
C5_Claimed ==
  (Ran /\ result.ok) =>
    LET f == result.value.format
    IN  /\ f.polarity = Boolean(FlagBit(0) = 1)
        /\ f.mainsFrequency = Number(IF FlagBit(1) = 1 THEN 60 ELSE 50)
        /\ f.mainsFilter = Boolean(FlagBit(2) = 1)
        /\ f.lowPassFilter = Boolean(FlagBit(3) = 1)
        /\ f.baseLineFilter = Boolean(FlagBit(4) = 1)
        /\ f.notchMainsFilter = Boolean(FlagBit(5) = 1)
        /\ f.enhancedFilter = Boolean(FlagBit(6) = 1)

(* C5 as amended: the same, except that polarity is the number 1 when bit  *)
(* 0 is 1 and the number 0 when it is 0; the decoded fields and bit 7      *)
(* give back the flags byte.                                               *)
C5_Amended ==
  (Ran /\ result.ok) =>
    LET f == result.value.format
        One(b) == IF b = Boolean(TRUE) THEN 1 ELSE 0
    IN  /\ f.polarity \in {Number(0), Number(1)}
        /\ f.mainsFrequency \in {Number(50), Number(60)}
        /\ \A b \in {f.mainsFilter, f.lowPassFilter, f.baseLineFilter,
                     f.notchMainsFilter, f.enhancedFilter} :
             b \in {Boolean(FALSE), Boolean(TRUE)}
        /\ FlagsByte = f.polarity.num
                        + 2 * (IF f.mainsFrequency = Number(60) THEN 1 ELSE 0)
                        + 4 * One(f.mainsFilter)
                        + 8 * One(f.lowPassFilter)
                        + 16 * One(f.baseLineFilter)
                        + 32 * One(f.notchMainsFilter)
                        + 64 * One(f.enhancedFilter)
                        + 128 * FlagBit(7)

\* flags byte 42 (hexadecimal): mainsFrequency 60, enhancedFilter, polarity 0
C5_Witness ==
  /\ Ran /\ result.ok /\ FlagsByte = 66
  /\ result.value.format.polarity = Number(0)
  /\ result.value.format.mainsFrequency = Number(60)
  /\ result.value.format.enhancedFilter = Boolean(TRUE)
  /\ result.value.format.mainsFilter = Boolean(FALSE)

-----------------------------------------------------------------------------
(* C9: an 'ecg ' content of 2n bytes decodes to n samples, sample i being  *)
(* bytes 2i-1 and 2i read little-endian as a signed 16-bit value in        *)
(* -32768..32767; a content of odd length makes parse() fail inside the    *)
(* lead parser.                                                            *)
C9_Signal ==
  Ran =>
    LET c == FirstBlock(ID_ecg).contents
    IN  IF Len(c) % 2 = 0
        THEN /\ result.ok
             /\ Len(result.value.leads["leadI"]) * 2 = Len(c)
             /\ \A i \in DOMAIN result.value.leads["leadI"] :
                  LET v == result.value.leads["leadI"][i]
                  IN  /\ v \in -32768..32767
                      /\ (v - (c[2 * i - 1] + 256 * c[2 * i])) % 65536 = 0
        ELSE MalformedSignalBlock

\* bytes 38 FF 00 80 decoded to -200 and -32768
C9_Witness ==
  /\ Ran /\ result.ok
  /\ FirstBlock(ID_ecg).contents = <<56, 255, 0, 128>>
  /\ result.value.leads["leadI"] = <<-200, -32768>>

====
